---- MODULE Spec2Model ----
(***************************************************************************)
(* Model of the GraphQL resolvers of server/resolvers.js over the shared   *)
(* in-memory `users` array, and of the request handling of server/index.js *)
(* that dispatches HTTP requests to them.                                  *)
(*                                                                         *)
(*   Spec      the resolvers called one after another, any order           *)
(*   SpecConc  two HTTP requests in flight at once on the /graphql route   *)
(***************************************************************************)
EXTENDS Integers, Sequences, FiniteSets, TLC

(* ---------------------------- bounds ----------------------------------- *)
\* createUser calls per behaviour (the array only grows through createUser)
MaxCreates == 3

(* ---------------------------- inputs ----------------------------------- *)
Usernames == {"a", "c"}
Emails == {"b"}
\* the argument values tried in SpecConc
ConcUsernames == {"a"}
ConcIds == {"1", "3"}
\* the two requests in flight
Reqs == {"r1", "r2"}

(* ---------------------------- state ------------------------------------ *)
VARIABLES
  users,     \* resolvers.js:2  the module-level array
  last,      \* the latest resolver call: field, arguments, outcome
  created,   \* history: the entries returned by createUser, in call order
  nCreate,   \* history: number of createUser calls
  nDelete,   \* history: number of deleteUser calls that did not throw
  scen,      \* history: progress of the mutation sequence through
             \*   createUser, createUser, deleteUser(first created), createUser
  requests   \* index.js:34  per request: stage, GraphQL field, arguments

vars == <<users, last, created, nCreate, nDelete, scen, requests>>

(* ---------------------------- JavaScript built-ins --------------------- *)
Digit == <<"0", "1", "2", "3", "4", "5", "6", "7", "8", "9">>

RECURSIVE String(_)
\* String(n) for a non-negative integer n: its decimal digits
String(n) ==
  IF n < 10 THEN Digit[n + 1]
  ELSE String(n \div 10) \o Digit[(n % 10) + 1]

\* findLastIndex in place of findIndex
RECURSIVE findLastIndexFrom(_, _, _)
findLastIndexFrom(list, id, k) ==
  IF k < 0 THEN -1
  ELSE IF list[k + 1].id = id THEN k
  ELSE findLastIndexFrom(list, id, k - 1)

findIndexLast(list, id) == findLastIndexFrom(list, id, Len(list) - 1)

\* Array.prototype.findIndex with the predicate user.id === id:
\* the 0-based index of the first match, -1 when there is none
RECURSIVE findIndexFrom(_, _, _)
findIndexFrom(list, id, k) ==
  IF k >= Len(list) THEN -1
  ELSE IF list[k + 1].id = id THEN k
  ELSE findIndexFrom(list, id, k + 1)

findIndex(list, id) == findIndexFrom(list, id, 0)

\* findLast in place of find
findLast(list, id) ==
  IF findIndexLast(list, id) = -1 THEN << >>
  ELSE <<list[findIndexLast(list, id) + 1]>>

\* Array.prototype.find with the predicate user.id === id: the first
\* matching element as <<element>>, undefined as << >>
RECURSIVE findFrom(_, _, _)
findFrom(list, id, k) ==
  IF k >= Len(list) THEN << >>
  ELSE IF list[k + 1].id = id THEN <<list[k + 1]>>
  ELSE findFrom(list, id, k + 1)

find(list, id) == findFrom(list, id, 0)

\* concat in place of push: the array itself is left as it was
pushConcat(list, user) == list

\* unshift in place of push
pushFront(list, user) == <<user>> \o list

\* Array.prototype.push: the array after the call
push(list, user) == Append(list, user)

\* Array.prototype.splice(start, 1) with a 0-based start inside the array:
\* the removed elements, and the array after the call
spliceRemoved(list, start) == SubSeq(list, start + 1, start + 1)

\* slice in place of splice: nothing is removed
spliceRestNone(list, start) == list

\* splice(start) without the delete count: everything from start on goes
spliceRestAll(list, start) == SubSeq(list, 1, start)

spliceRest(list, start) ==
  SubSeq(list, 1, start) \o SubSeq(list, start + 2, Len(list))

(* ---------------------------- resolvers.js ----------------------------- *)
SeedUsers ==
  << [id |-> "1", username |-> "john_doe", email |-> "john@example.com"],
     [id |-> "2", username |-> "jane_smith", email |-> "jane@example.com"] >>

\* the id arguments tried: every id the bounds let createUser assign, the
\* next one, and one far off
IdArgs == {String(i) : i \in 1..(Len(SeedUsers) + MaxCreates + 1)} \cup {"999"}

\* the id taken from the length without the + 1
newUserOffByOne(list, username, email) ==
  [id |-> String(Len(list)), username |-> username, email |-> email]

\* resolvers.js:14  the object createUser builds
newUser(list, username, email) ==
  [id |-> String(Len(list) + 1), username |-> username, email |-> email]

NoCall ==
  [field |-> "none", id |-> "", username |-> "", email |-> "",
   outcome |-> "none", value |-> << >>, message |-> ""]

\* users.slice(1) in place of users
Query_usersSlice ==
  /\ last' = [field |-> "users", id |-> "", username |-> "", email |-> "",
              outcome |-> "list", value |-> Tail(users), message |-> ""]
  /\ UNCHANGED <<users, created, nCreate, nDelete, scen>>

\* Query.users
Query_users ==
  /\ last' = [NoCall EXCEPT !.field = "users", !.outcome = "list",
                            !.value = users]
  /\ UNCHANGED <<users, created, nCreate, nDelete, scen>>

\* Query.user: undefined from find is GraphQL null for the nullable field
Query_user(id) ==
  LET found == find(users, id)
  IN /\ last' = [NoCall EXCEPT !.field = "user", !.id = id,
                   !.outcome = IF found = << >> THEN "null" ELSE "value",
                   !.value = found]
     /\ UNCHANGED <<users, created, nCreate, nDelete, scen>>

\* Mutation.createUser
Mutation_createUser(username, email) ==
  LET user == newUser(users, username, email)
  IN /\ users' = push(users, user)
     /\ last' = [NoCall EXCEPT !.field = "createUser",
                   !.username = username, !.email = email,
                   !.outcome = "value", !.value = <<user>>]
     /\ created' = Append(created, user)
     /\ nCreate' = nCreate + 1
     /\ scen' = IF scen \in {0, 1, 3} THEN scen + 1 ELSE -1
     /\ UNCHANGED nDelete

\* deleteUser without the userIndex === -1 check: splice(-1, 1) removes the
\* last element
Mutation_deleteUserNoCheck(id) ==
  LET userIndex == findIndex(users, id)
      start == IF userIndex = -1 THEN Len(users) - 1 ELSE userIndex
  IN IF start = -1
     THEN /\ last' = [NoCall EXCEPT !.field = "deleteUser", !.id = id,
                        !.outcome = "null"]
          /\ UNCHANGED <<users, created, nCreate, nDelete, scen>>
     ELSE /\ users' = spliceRest(users, start)
          /\ last' = [NoCall EXCEPT !.field = "deleteUser", !.id = id,
                        !.outcome = "value",
                        !.value = spliceRemoved(users, start)]
          /\ nDelete' = nDelete + 1
          /\ scen' = IF scen = 2 /\ id = created[1].id THEN 3 ELSE -1
          /\ UNCHANGED <<created, nCreate>>

\* Mutation.deleteUser
Mutation_deleteUser(id) ==
  LET userIndex == findIndex(users, id)
  IN IF userIndex = -1
     THEN /\ last' = [NoCall EXCEPT !.field = "deleteUser", !.id = id,
                        !.outcome = "error", !.message = "User not found"]
          /\ UNCHANGED <<users, created, nCreate, nDelete, scen>>
     ELSE /\ users' = spliceRest(users, userIndex)
          /\ last' = [NoCall EXCEPT !.field = "deleteUser", !.id = id,
                        !.outcome = "value",
                        !.value = spliceRemoved(users, userIndex)]
          /\ nDelete' = nDelete + 1
          /\ scen' = IF scen = 2 /\ id = created[1].id THEN 3 ELSE -1
          /\ UNCHANGED <<created, nCreate>>

(* ---------------------------- sequential calls ------------------------- *)
Idle == [stage |-> "idle", field |-> "none", id |-> "", username |-> "",
         email |-> "", seenLen |-> -1, seenDel |-> -1, retId |-> ""]

Init ==
  /\ users = SeedUsers
  /\ last = NoCall
  /\ created = << >>
  /\ nCreate = 0
  /\ nDelete = 0
  /\ scen = 0
  /\ requests = [r \in Reqs |-> Idle]

CallUsers == Query_users /\ UNCHANGED requests

CallUser == \E id \in IdArgs : Query_user(id) /\ UNCHANGED requests

CallCreateUser ==
  /\ nCreate < MaxCreates
  /\ \E username \in Usernames, email \in Emails :
       Mutation_createUser(username, email)
  /\ UNCHANGED requests

CallDeleteUser == \E id \in IdArgs : Mutation_deleteUser(id) /\ UNCHANGED requests

Next == CallUsers \/ CallUser \/ CallCreateUser \/ CallDeleteUser

Spec == Init /\ [][Next]_vars

(* ---------------------------- concurrent requests ---------------------- *)
\* index.js:34  the /graphql middleware takes a request; reading and parsing
\* its body is asynchronous, so other requests are served meanwhile
Receive(r) ==
  /\ requests[r].stage = "idle"
  /\ \E field \in {"users", "user", "createUser", "deleteUser"},
        id \in ConcIds, username \in ConcUsernames, email \in Emails :
       requests' = [requests EXCEPT ![r] =
         [Idle EXCEPT !.stage = "received", !.field = field,
            !.id = IF field \in {"user", "deleteUser"} THEN id ELSE "",
            !.username = IF field = "createUser" THEN username ELSE "",
            !.email = IF field = "createUser" THEN email ELSE ""]]
  /\ UNCHANGED <<users, last, created, nCreate, nDelete, scen>>

\* what the request keeps of the resolver call made for it: the array length
\* and the delete count the call started from, and the id it returned
Executed(r) ==
  requests' = [requests EXCEPT ![r] =
    [@ EXCEPT !.stage = "executed", !.seenLen = Len(users),
       !.seenDel = nDelete,
       !.retId = IF last'.outcome = "value" THEN last'.value[1].id ELSE ""]]

\* the parsed document is executed: the resolver is a synchronous function,
\* called and returning within one turn of the event loop
Execute(r) ==
  /\ requests[r].stage = "received"
  /\ \/ /\ requests[r].field = "users"
        /\ Query_users
     \/ /\ requests[r].field = "user"
        /\ Query_user(requests[r].id)
     \/ /\ requests[r].field = "createUser"
        /\ nCreate < MaxCreates
        /\ Mutation_createUser(requests[r].username, requests[r].email)
     \/ /\ requests[r].field = "deleteUser"
        /\ Mutation_deleteUser(requests[r].id)
  /\ Executed(r)

\* the response is written
Respond(r) ==
  /\ requests[r].stage = "executed"
  /\ requests' = [requests EXCEPT ![r] = Idle]
  /\ UNCHANGED <<users, last, created, nCreate, nDelete, scen>>

NextConc == \E r \in Reqs : Receive(r) \/ Execute(r) \/ Respond(r)

SpecConc == Init /\ [][NextConc]_vars

(* ---------------------------- properties ------------------------------- *)
HasId(list, id) == \E i \in 1..Len(list) : list[i].id = id

\* 1-based position of the first entry of list carrying id
FirstPos(list, id) ==
  CHOOSE i \in 1..Len(list) :
    list[i].id = id /\ \A j \in 1..(i - 1) : list[j].id # id

RECURSIVE IsSubseq(_, _)
\* s is t with some elements left out, the others in t's order
IsSubseq(s, t) ==
  IF s = << >> THEN TRUE
  ELSE IF t = << >> THEN FALSE
  ELSE IF Head(s) = Head(t) THEN IsSubseq(Tail(s), Tail(t))
  ELSE IsSubseq(s, Tail(t))

\* C1: no two entries of the user list have the same id.
NoDuplicateIds ==
  \A i, j \in 1..Len(users) : i # j => users[i].id # users[j].id

\* C2: createUser never fails, appends exactly one entry at the end (length
\* grows by one, the earlier entries and their order are kept) and returns
\* the appended entry, whose username and email are the arguments and whose
\* id is the string of (length before the call + 1).
CreateUserAppends ==
  [][last'.field = "createUser" =>
       /\ last'.outcome = "value"
       /\ Len(last'.value) = 1
       /\ Len(users') = Len(users) + 1
       /\ SubSeq(users', 1, Len(users)) = users
       /\ users'[Len(users')] = last'.value[1]
       /\ last'.value[1].username = last'.username
       /\ last'.value[1].email = last'.email
       /\ last'.value[1].id = String(Len(users) + 1)]_vars

CreateUserWitness ==
  /\ last.field = "createUser"
  /\ last.username = "a" /\ last.email = "b"
  /\ Len(users) = 3
  /\ users[3] = [id |-> "3", username |-> "a", email |-> "b"]

\* C3: deleteUser of an id some entry carries removes exactly the first entry
\* in list order with that id, returns it, shortens the list by one and keeps
\* every other entry in the same relative order.
DeleteUserRemovesFirst ==
  [][(last'.field = "deleteUser" /\ HasId(users, last'.id)) =>
       LET k == FirstPos(users, last'.id)
       IN /\ last'.outcome = "value"
          /\ last'.value = <<users[k]>>
          /\ Len(users') = Len(users) - 1
          /\ \A i \in 1..(k - 1) : users'[i] = users[i]
          /\ \A i \in k..(Len(users) - 1) : users'[i] = users[i + 1]]_vars

\* a delete that removed one of two different entries with the same id
DeleteUserWitness ==
  /\ last.field = "deleteUser" /\ last.outcome = "value"
  /\ \E i \in 1..Len(users) :
       users[i].id = last.id /\ users[i] # last.value[1]

\* C4: deleteUser of an id no entry carries fails with "User not found" and
\* leaves the list unchanged; deleteUser fails in no other case, and users,
\* user and createUser never fail.
DeleteUserNotFound ==
  [][/\ (last'.field = "deleteUser" /\ ~HasId(users, last'.id)) =>
          /\ last'.outcome = "error"
          /\ last'.message = "User not found"
          /\ users' = users
     /\ last'.outcome = "error" =>
          /\ last'.field = "deleteUser"
          /\ ~HasId(users, last'.id)]_vars

DeleteUserNotFoundWitness ==
  /\ last.field = "deleteUser" /\ last.outcome = "error"
  /\ last.message = "User not found"
  /\ Len(users) >= 3

\* C5: user(id) returns the first entry in list order with that id, or null
\* (no error) when there is none, and leaves the list unchanged; on the
\* seeded list user("1") is the john_doe entry and user("999") is null.
UserReturnsFirst ==
  [][last'.field = "user" =>
       /\ users' = users
       /\ IF HasId(users, last'.id)
          THEN /\ last'.outcome = "value"
               /\ last'.value = <<users[FirstPos(users, last'.id)]>>
          ELSE /\ last'.outcome = "null"
               /\ last'.value = << >>
       /\ (nCreate = 0 /\ nDelete = 0 /\ last'.id = "1") =>
            last'.value =
              <<[id |-> "1", username |-> "john_doe",
                 email |-> "john@example.com"]>>
       /\ (nCreate = 0 /\ nDelete = 0 /\ last'.id = "999") =>
            last'.outcome = "null"]_vars

\* a lookup that returned the earlier of two different entries with its id
UserWitness ==
  /\ last.field = "user" /\ last.outcome = "value"
  /\ \E i, j \in 1..Len(users) :
       /\ i < j
       /\ users[i].id = last.id /\ users[j].id = last.id
       /\ users[i] # users[j]
       /\ last.value = <<users[i]>>

\* C6: users() returns the full current list in insertion order, never fails
\* and leaves the list unchanged; before any mutation it returns exactly the
\* two seeded entries, john_doe then jane_smith.
UsersReturnsAll ==
  [][last'.field = "users" =>
       /\ last'.outcome = "list"
       /\ last'.value = users
       /\ users' = users
       /\ (nCreate = 0 /\ nDelete = 0) =>
            last'.value =
              <<[id |-> "1", username |-> "john_doe",
                 email |-> "john@example.com"],
                [id |-> "2", username |-> "jane_smith",
                 email |-> "jane@example.com"]>>]_vars

UsersWitness ==
  /\ last.field = "users" /\ last.outcome = "list"
  /\ nCreate >= 1 /\ nDelete >= 1
  /\ Len(last.value) >= 2
  /\ last.value = users

\* C7: after createUser, createUser, deleteUser(id of the first created
\* user), createUser the third created user has the id of the second created
\* user, which is still present: the list holds two entries with one id.
RegressionCollides ==
  scen = 4 =>
    /\ Len(created) = 3
    /\ created[3].id = created[2].id
    /\ Len(users) = 4
    /\ users[3] = created[2]
    /\ users[4] = created[3]
    /\ ~NoDuplicateIds

RegressionWitness ==
  /\ scen = 4
  /\ last.field = "createUser"
  /\ last.value = <<created[3]>>
  /\ users[3].id = "4" /\ users[4].id = "4"

\* C9: every entry is a seed entry or an entry createUser returned, with the
\* fields it was inserted with; the surviving entries are in insertion
\* order; the length is 2 + createUser calls - successful deleteUser calls.
ListIsSurvivors ==
  /\ IsSubseq(users,
       <<[id |-> "1", username |-> "john_doe", email |-> "john@example.com"],
         [id |-> "2", username |-> "jane_smith",
          email |-> "jane@example.com"]>> \o created)
  /\ Len(created) = nCreate
  /\ Len(users) = 2 + nCreate - nDelete

ListIsSurvivorsWitness ==
  /\ nCreate >= 2 /\ nDelete >= 2
  /\ Len(users) >= 2
  /\ \E i \in 1..Len(created) : ~HasId(users, created[i].id)
  /\ \E i \in 1..Len(users) : users[i].username = "jane_smith"

\* C10: while no deleteUser call has succeeded, the entry at position i has
\* id String(i), so the ids are pairwise distinct, and user(id) of the entry
\* createUser just returned is that entry.
IdsArePositions ==
  nDelete = 0 =>
    /\ \A i \in 1..Len(users) : users[i].id = String(i)
    /\ NoDuplicateIds
    /\ last.field = "createUser" =>
         find(users, last.value[1].id) = last.value

IdsArePositionsWitness ==
  /\ nDelete = 0 /\ nCreate >= 2
  /\ last.field = "createUser"
  /\ last.value[1].id = String(Len(users))

PendingCreate(r) ==
  requests[r].stage = "received" /\ requests[r].field = "createUser"

DoneCreate(r) ==
  requests[r].stage = "executed" /\ requests[r].field = "createUser"

\* C8 as stated: with two createUser requests in flight, the read of the
\* length is not atomic with the append: once one call has read the length,
\* the other can read that same length.
CreateNotAtomic ==
  \A r, q \in Reqs :
    (r # q /\ DoneCreate(r) /\ PendingCreate(q)) =>
      ENABLED (Execute(q) /\ requests'[q].seenLen = requests[r].seenLen)

\* C8 amended: the call made for a createUser request reads the length and
\* appends in one step; of two createUser requests in flight together with
\* no successful deleteUser between their calls, the later reads a greater
\* length and the two are assigned different ids.
CreateAtomic ==
  /\ [](\A r, q \in Reqs :
          (r # q /\ DoneCreate(r) /\ DoneCreate(q)
             /\ requests[r].seenDel = requests[q].seenDel) =>
            /\ requests[r].seenLen # requests[q].seenLen
            /\ requests[r].retId # requests[q].retId)
  /\ [][\A r \in Reqs :
          (PendingCreate(r) /\ requests'[r].stage = "executed") =>
            /\ requests'[r].seenLen = Len(users)
            /\ Len(users') = Len(users) + 1
            /\ users'[Len(users')].id = requests'[r].retId
            /\ requests'[r].retId = String(Len(users) + 1)]_vars

CreateAtomicWitness ==
  /\ DoneCreate("r1") /\ DoneCreate("r2")
  /\ requests["r1"].seenDel = requests["r2"].seenDel
  /\ requests["r1"].seenLen = 3 /\ requests["r2"].seenLen = 2
  /\ requests["r1"].retId = "4" /\ requests["r2"].retId = "3"

====
